---------------------------- MODULE Spec2Model ----------------------------
(***************************************************************************)
(* Model of the speech/music classification pipeline of podcastgen         *)
(* (src/src/sound.c): calculate_features, classify_segments,               *)
(* average_musicness and merge_segments.                                   *)
(*                                                                         *)
(* Arrays keep the source's 0-based indices: an array of n cells is a      *)
(* function with domain 0..n-1.  Memory that the code reads before it      *)
(* writes it (malloc'ed cells, the caller's segment storage) holds an      *)
(* arbitrary value, chosen nondeterministically.                           *)
(***************************************************************************)
EXTENDS Integers, FiniteSets, Sequences, TLC

VARIABLES pc, LONG_FRAME_COUNT, RMS_FRAMES_IN_LONG_FRAME, has_intro,
          rms, mean_rms, variance_rms,
          norm_variance_rms, mler, is_music, unsmoothed,
          segments, current_segment,
          merged_segments, current_merged_segment, written, branch, ret

vars == <<pc, LONG_FRAME_COUNT, RMS_FRAMES_IN_LONG_FRAME, has_intro,
          rms, mean_rms, variance_rms,
          norm_variance_rms, mler, is_music, unsmoothed,
          segments, current_segment,
          merged_segments, current_merged_segment, written, branch, ret>>

---------------------------------------------------------------------------
(* Bounds of the model *)

\* longest label sequence handed to merge_segments
MaxLongFrames == 14
\* length of the three-run label sequences (music, speech, music)
ScenarioFrames == 20
\* longest label sequence handed to average_musicness
MaxSmoothFrames == 8
\* most long frames / RMS frames per long frame / largest RMS value
\* handed to calculate_features
MaxFeatureFrames == 2
MaxRmsPerLongFrame == 2
MaxRms == 2
\* largest arbitrary integer found in unwritten segment storage
MaxGarbage == 1

---------------------------------------------------------------------------
(* Program constants *)

MIN_SEGMENT_DIFF == 10
\* the divisor of the window sum in average_musicness
WINDOW_DIVISOR == 5
GROW_BY_BEFORE == 3
GROW_BY_AFTER == 3
\* LOW_ENERGY_COEFFICIENT = 0.20 = 1 / LOW_ENERGY_DIVISOR
LOW_ENERGY_DIVISOR == 5
\* UPPER_MUSIC_THRESHOLD = 0.0
UPPER_MUSIC_THRESHOLD == 0

---------------------------------------------------------------------------
(* Helpers *)

NoArray == <<>>

Segment(s, e, m) == [startframe |-> s, endframe |-> e, is_music |-> m]

\* what a segment cell may hold before the code writes it
GarbageSegment ==
    { Segment(g, g, m) : g \in 0..MaxGarbage, m \in BOOLEAN }

LabelSeqs(lo, hi) == UNION { [0..(n-1) -> BOOLEAN] : n \in lo..hi }

\* label sequences of ScenarioFrames frames made of three runs:
\* music on [0, a), speech on [a, b), music on [b, ScenarioFrames)
ThreeRunSeqs ==
    { [i \in 0..(ScenarioFrames-1) |-> (i < ab[1]) \/ (i >= ab[2])] :
        ab \in { x \in (1..(ScenarioFrames-2)) \X (2..(ScenarioFrames-1)) :
                   x[1] < x[2] } }

---------------------------------------------------------------------------
(* calculate_features (lines 61-106) and classify_segments (108-116)       *)
(*                                                                         *)
(* A float is kept as an exact ratio [num, den]; den = 0 is the result of  *)
(* dividing zero by zero.  RMS values are small integers, so every         *)
(* comparison the code makes is between values that differ by far more     *)
(* than a rounding error, or between exact zeros.                          *)

Ratio(n, d) == [num |-> n, den |-> d]

RECURSIVE SumOver(_, _, _)
SumOver(f, lo, hi) == IF lo > hi THEN 0 ELSE f[lo] + SumOver(f, lo + 1, hi)

\* signum of util.h
Signum(x) == IF x > 0 THEN 1 ELSE IF x < 0 THEN -1 ELSE 0

\* the first and last RMS frame of a long frame
BlockStart(long_frame, perLong) == long_frame * perLong
BlockEnd(long_frame, perLong) == (long_frame + 1) * perLong - 1

RmsSum(r, long_frame, perLong) ==
    SumOver(r, BlockStart(long_frame, perLong), BlockEnd(long_frame, perLong))

\* MlerTerm without the "+ 1" of line 91
MlerTermNoOffset(rms_sum, v, perLong) ==
    Signum(rms_sum - LOW_ENERGY_DIVISOR * perLong * v)

\* line 91: signum(lowthres - rms[i]) + 1, where
\* lowthres = LOW_ENERGY_COEFFICIENT * rms_sum / perLong; the difference
\* is scaled by LOW_ENERGY_DIVISOR * perLong > 0, which keeps its sign
MlerTerm(rms_sum, v, perLong) ==
    Signum(rms_sum - LOW_ENERGY_DIVISOR * perLong * v) + 1

\* lines 88-96: the MLER of one long frame
Mler(r, long_frame, perLong) ==
    LET rms_sum == RmsSum(r, long_frame, perLong)
        terms == [i \in BlockStart(long_frame, perLong)
                        ..BlockEnd(long_frame, perLong) |->
                    MlerTerm(rms_sum, r[i], perLong)]
    IN  Ratio(SumOver(terms, BlockStart(long_frame, perLong),
                      BlockEnd(long_frame, perLong)),
              2 * perLong)

\* lines 90-94: twice the squared distance to rms_sum, per RMS frame
Variance(r, long_frame, perLong) ==
    LET rms_sum == RmsSum(r, long_frame, perLong)
        terms == [i \in BlockStart(long_frame, perLong)
                        ..BlockEnd(long_frame, perLong) |->
                    2 * (r[i] - rms_sum) * (r[i] - rms_sum)]
    IN  Ratio(SumOver(terms, BlockStart(long_frame, perLong),
                      BlockEnd(long_frame, perLong)),
              perLong)

\* line 110: mler[long_frame] <= UPPER_MUSIC_THRESHOLD
IsMusicLabel(m) == m.num <= UPPER_MUSIC_THRESHOLD * m.den

InitFeatures ==
    /\ pc = "features"
    /\ LONG_FRAME_COUNT \in 1..MaxFeatureFrames
    /\ RMS_FRAMES_IN_LONG_FRAME \in 1..MaxRmsPerLongFrame
    /\ rms \in [0..(LONG_FRAME_COUNT * RMS_FRAMES_IN_LONG_FRAME - 1)
                 -> 0..MaxRms]
    /\ has_intro = FALSE
    /\ mean_rms = NoArray
    /\ variance_rms = NoArray
    /\ norm_variance_rms = NoArray
    /\ mler = NoArray
    /\ is_music = NoArray
    /\ unsmoothed = NoArray
    /\ segments = NoArray
    /\ current_segment = 0
    /\ merged_segments = NoArray
    /\ current_merged_segment = 0
    /\ written = {}
    /\ branch = NoArray
    /\ ret = -1

CalculateFeatures ==
    /\ pc = "features"
    /\ mean_rms' = [lf \in 0..(LONG_FRAME_COUNT-1) |->
          Ratio(RmsSum(rms, lf, RMS_FRAMES_IN_LONG_FRAME),
                RMS_FRAMES_IN_LONG_FRAME)]
    /\ variance_rms' = [lf \in 0..(LONG_FRAME_COUNT-1) |->
          Variance(rms, lf, RMS_FRAMES_IN_LONG_FRAME)]
    /\ norm_variance_rms' = [lf \in 0..(LONG_FRAME_COUNT-1) |->
          Ratio(Variance(rms, lf, RMS_FRAMES_IN_LONG_FRAME).num,
                RmsSum(rms, lf, RMS_FRAMES_IN_LONG_FRAME))]
    /\ mler' = [lf \in 0..(LONG_FRAME_COUNT-1) |->
          Mler(rms, lf, RMS_FRAMES_IN_LONG_FRAME)]
    /\ pc' = "classify"
    /\ UNCHANGED <<LONG_FRAME_COUNT, RMS_FRAMES_IN_LONG_FRAME, has_intro,
                   rms, is_music, unsmoothed, segments, current_segment,
                   merged_segments, current_merged_segment, written,
                   branch, ret>>

ClassifySegments ==
    /\ pc = "classify"
    /\ is_music' = [lf \in 0..(LONG_FRAME_COUNT-1) |->
                       IsMusicLabel(mler[lf])]
    /\ pc' = "classified"
    /\ UNCHANGED <<LONG_FRAME_COUNT, RMS_FRAMES_IN_LONG_FRAME, has_intro,
                   rms, mean_rms, variance_rms, norm_variance_rms, mler,
                   unsmoothed, segments, current_segment, merged_segments,
                   current_merged_segment, written, branch, ret>>

NextFeatures == CalculateFeatures \/ ClassifySegments

SpecFeatures == InitFeatures /\ [][NextFeatures]_vars

---------------------------------------------------------------------------
(* average_musicness (lines 118-134) *)

\* rint(k / d) for an odd d: k / d is never halfway between two integers
Rint(k, d) == (2 * k + d) \div (2 * d)

\* conversion of a double to bool
ToBool(x) == x # 0

BoolInt(b) == IF b THEN 1 ELSE 0

\* line 124: the value stored for an interior long frame
WindowLabel(labels, long_frame) ==
    ToBool(Rint(BoolInt(labels[long_frame-3]) + BoolInt(labels[long_frame-2])
                + BoolInt(labels[long_frame-1]) + BoolInt(labels[long_frame])
                + BoolInt(labels[long_frame+1]) + BoolInt(labels[long_frame+2])
                + BoolInt(labels[long_frame+3]),
                WINDOW_DIVISOR))

\* the last index the loop of line 123 writes
LastInterior(n) == n - 4

\* lines 127-129: the cells set to false after the loop
TrailingCells(n) == {n, n - 1, n - 2}

\* music_second_pass after lines 119-129; every cell of the malloc'ed
\* buffer starts with the arbitrary value g
SecondPass(labels, n, g) ==
    LET fresh   == [i \in 0..(2 * n - 1) |-> g]
        leading == [i \in 0..(2 * n - 1) |->
                      IF i \in {0, 1, 2} THEN TRUE ELSE fresh[i]]
        looped  == [i \in 0..(2 * n - 1) |->
                      IF i >= 3 /\ i <= LastInterior(n)
                      THEN WindowLabel(labels, i) ELSE leading[i]]
    IN  [i \in 0..(2 * n - 1) |->
            IF i \in TrailingCells(n) THEN FALSE ELSE looped[i]]

\* lines 130-132: the copy back into is_music
AverageMusicness(labels, n, g) ==
    [i \in 0..(n - 1) |-> SecondPass(labels, n, g)[i]]

InitSmooth ==
    /\ pc = "smooth"
    /\ is_music \in LabelSeqs(2, MaxSmoothFrames)
    /\ LONG_FRAME_COUNT = Cardinality(DOMAIN is_music)
    /\ unsmoothed = is_music
    /\ has_intro = FALSE
    /\ RMS_FRAMES_IN_LONG_FRAME = 0
    /\ rms = NoArray
    /\ mean_rms = NoArray
    /\ variance_rms = NoArray
    /\ norm_variance_rms = NoArray
    /\ mler = NoArray
    /\ segments = NoArray
    /\ current_segment = 0
    /\ merged_segments = NoArray
    /\ current_merged_segment = 0
    /\ written = {}
    /\ branch = NoArray
    /\ ret = -1

Smooth ==
    /\ pc = "smooth"
    /\ \E g \in BOOLEAN :
          is_music' = AverageMusicness(is_music, LONG_FRAME_COUNT, g)
    /\ pc' = "smoothed"
    /\ UNCHANGED <<LONG_FRAME_COUNT, RMS_FRAMES_IN_LONG_FRAME, has_intro,
                   rms, mean_rms, variance_rms, norm_variance_rms, mler,
                   unsmoothed, segments, current_segment, merged_segments,
                   current_merged_segment, written, branch, ret>>

NextSmooth == Smooth

SpecSmooth == InitSmooth /\ [][NextSmooth]_vars

---------------------------------------------------------------------------
(* merge_segments, phase 1: run detection (lines 139-154) *)

\* one iteration of the loop over long_frame; st = [segs, cur]
DetectStep(labels, long_frame, st) ==
    IF long_frame = 0
    THEN [segs |-> (0 :> Segment(0, 0, TRUE)), cur |-> 0]
    ELSE IF labels[long_frame] = st.segs[st.cur].is_music
    THEN [st EXCEPT !.segs[st.cur].endframe = @ + 1]
    ELSE [segs |-> st.segs @@
                   ((st.cur + 1) :> Segment(long_frame, long_frame,
                                            labels[long_frame])),
          cur  |-> st.cur + 1]

RECURSIVE DetectLoop(_, _, _, _)
DetectLoop(labels, n, long_frame, st) ==
    IF long_frame < n
    THEN DetectLoop(labels, n, long_frame + 1,
                    DetectStep(labels, long_frame, st))
    ELSE st

DetectRuns(labels, n) ==
    DetectLoop(labels, n, 0, [segs |-> NoArray, cur |-> 0])

---------------------------------------------------------------------------
(* merge_segments, phase 2: merging (lines 158-176) *)

\* the test of line 166 that makes a run "short"
IsShort(s) == s.endframe - s.startframe < MIN_SEGMENT_DIFF

\* one iteration of the loop over seg; st = [merged, cms, written, branch]
\* written: the storage cells a merged segment was stored in
\* branch:  the branch of the if-chain each run took
MergeStep(segs, intro, seg, st) ==
    IF seg = 0
    THEN [st EXCEPT
            !.merged[0] = Segment(segs[0].startframe, segs[0].endframe,
                                  IF intro THEN FALSE ELSE @.is_music),
            !.written = @ \cup {0},
            !.branch = @ @@ (seg :> "first")]
    ELSE IF IsShort(segs[seg])
    THEN [st EXCEPT !.merged[st.cms].endframe = segs[seg].endframe,
                    !.branch = @ @@ (seg :> "short")]
    ELSE IF segs[seg].is_music = st.merged[st.cms].is_music
    THEN [st EXCEPT !.merged[st.cms].endframe = segs[seg].endframe,
                    !.branch = @ @@ (seg :> "same")]
    ELSE [st EXCEPT
            !.cms = @ + 1,
            !.merged[st.cms + 1] = segs[seg],
            !.written = @ \cup {st.cms + 1},
            !.branch = @ @@ (seg :> "new")]

\* the bound of the loop of line 159
MergeLoopRuns(seg, cur) == seg < cur

RECURSIVE MergeLoop(_, _, _, _, _)
MergeLoop(segs, cur, intro, seg, st) ==
    IF MergeLoopRuns(seg, cur)
    THEN MergeLoop(segs, cur, intro, seg + 1,
                   MergeStep(segs, intro, seg, st))
    ELSE st

MergeRuns(segs, cur, intro, storage) ==
    MergeLoop(segs, cur, intro, 0,
              [merged |-> storage, cms |-> 0, written |-> {},
               branch |-> NoArray])

---------------------------------------------------------------------------
(* merge_segments, boundary growth (lines 180-196) *)

GrowFirst(merged, intro) ==
    IF intro
    THEN [merged EXCEPT ![0].endframe = @ + GROW_BY_AFTER]
    ELSE [merged EXCEPT ![0].endframe = @ - GROW_BY_BEFORE]

GrowStep(merged, seg) ==
    IF merged[seg].is_music
    THEN [merged EXCEPT ![seg].startframe = @ + GROW_BY_BEFORE,
                        ![seg].endframe   = @ - GROW_BY_AFTER]
    ELSE [merged EXCEPT ![seg].startframe = @ - GROW_BY_BEFORE,
                        ![seg].endframe   = @ + GROW_BY_AFTER]

RECURSIVE GrowLoop(_, _, _)
GrowLoop(merged, cur, seg) ==
    IF seg < cur
    THEN GrowLoop(GrowStep(merged, seg), cur, seg + 1)
    ELSE merged

GrowSegments(merged, cur, intro) ==
    GrowLoop(GrowFirst(merged, intro), cur, 1)

---------------------------------------------------------------------------
(* The caller of merge_segments: a label sequence, the intro flag and      *)
(* storage for LONG_FRAME_COUNT segments whose content is arbitrary.       *)

InitMerge ==
    /\ pc = "merge_detect"
    /\ is_music \in LabelSeqs(1, MaxLongFrames) \cup ThreeRunSeqs
    /\ LONG_FRAME_COUNT = Cardinality(DOMAIN is_music)
    /\ has_intro \in BOOLEAN
    /\ \E g \in GarbageSegment :
          merged_segments = [i \in 0..(LONG_FRAME_COUNT-1) |-> g]
    /\ RMS_FRAMES_IN_LONG_FRAME = 0
    /\ rms = NoArray
    /\ mean_rms = NoArray
    /\ variance_rms = NoArray
    /\ norm_variance_rms = NoArray
    /\ mler = NoArray
    /\ unsmoothed = NoArray
    /\ segments = NoArray
    /\ current_segment = 0
    /\ current_merged_segment = 0
    /\ written = {}
    /\ branch = NoArray
    /\ ret = -1

MergePhase1 ==
    /\ pc = "merge_detect"
    /\ LET st == DetectRuns(is_music, LONG_FRAME_COUNT)
       IN  /\ segments' = st.segs
           /\ current_segment' = st.cur
    /\ pc' = "merge_merge"
    /\ UNCHANGED <<LONG_FRAME_COUNT, RMS_FRAMES_IN_LONG_FRAME, has_intro,
                   rms, mean_rms, variance_rms,
          norm_variance_rms, mler, is_music, unsmoothed, merged_segments,
                   current_merged_segment, written, branch, ret>>

MergePhase2 ==
    /\ pc = "merge_merge"
    /\ LET st == MergeRuns(segments, current_segment, has_intro,
                           merged_segments)
       IN  /\ merged_segments' = st.merged
           /\ current_merged_segment' = st.cms
           /\ written' = st.written
           /\ branch' = st.branch
    /\ pc' = "merge_grow"
    /\ UNCHANGED <<LONG_FRAME_COUNT, RMS_FRAMES_IN_LONG_FRAME, has_intro,
                   rms, mean_rms, variance_rms,
          norm_variance_rms, mler, is_music, unsmoothed, segments,
                   current_segment, ret>>

MergeGrow ==
    /\ pc = "merge_grow"
    /\ merged_segments' =
          GrowSegments(merged_segments, current_segment, has_intro)
    /\ ret' = current_merged_segment
    /\ pc' = "merge_done"
    /\ UNCHANGED <<LONG_FRAME_COUNT, RMS_FRAMES_IN_LONG_FRAME, has_intro,
                   rms, mean_rms, variance_rms,
          norm_variance_rms, mler, is_music, unsmoothed, segments,
                   current_segment, current_merged_segment, written,
                   branch>>

NextMerge == MergePhase1 \/ MergePhase2 \/ MergeGrow

SpecMerge == InitMerge /\ [][NextMerge]_vars

---------------------------------------------------------------------------
(* Properties of merge_segments *)

\* the merged segments merge_segments wrote, in storage order
MergedCount == Cardinality(written)
MergedLength(k) ==
    merged_segments[k].endframe - merged_segments[k].startframe + 1
PreGrowth == pc = "merge_grow"
Returned == pc = "merge_done"

\* C1: before boundary growth the merged segments partition
\* [0, LONG_FRAME_COUNT): the first starts at 0, each next one starts at
\* the previous end + 1, and the last one ends at LONG_FRAME_COUNT - 1.
C1_MergedPartition ==
    PreGrowth =>
        /\ MergedCount >= 1
        /\ written = 0..(MergedCount - 1)
        /\ merged_segments[0].startframe = 0
        /\ \A k \in 1..(MergedCount - 1) :
              merged_segments[k].startframe =
                  merged_segments[k-1].endframe + 1
        /\ merged_segments[MergedCount - 1].endframe = LONG_FRAME_COUNT - 1

\* C2: before boundary growth no merged segment other than the final one
\* is shorter than 10 long frames.
C2_NoShortMerged ==
    PreGrowth =>
        \A k \in written : k < MergedCount - 1 => MergedLength(k) >= 10

\* C3: the 20-frame sequence [0-2] music, [3-10] speech, [11-19] music,
\* without intro, is detected as exactly those three runs and merged
\* into the single segment [0-19] labelled music.
ScenarioLabels == [i \in 0..19 |-> (i <= 2) \/ (i >= 11)]
C3_ScenarioMerge ==
    (PreGrowth /\ is_music = ScenarioLabels /\ ~has_intro) =>
        /\ current_segment = 2
        /\ segments = (0 :> Segment(0, 2, TRUE)) @@
                      (1 :> Segment(3, 10, FALSE)) @@
                      (2 :> Segment(11, 19, TRUE))
        /\ MergedCount = 1
        /\ merged_segments[0] = Segment(0, 19, TRUE)

\* C4: with has_intro set, the first merged segment returned has
\* is_music = FALSE, also when the labels form a single run.
C4_IntroForcesSpeech ==
    (Returned /\ has_intro) => merged_segments[0].is_music = FALSE

\* C7: the returned integer is the number of merged segments written
\* into the caller's storage.
C7_ReturnsCount ==
    Returned => /\ ret = MergedCount
                /\ written = 0..(ret - 1)

\* C8: after boundary growth every returned segment has
\* startframe <= endframe.
C8_StartLeEnd ==
    Returned =>
        \A k \in written :
            merged_segments[k].startframe <= merged_segments[k].endframe

\* C10: a run other than the first is absorbed as short exactly when its
\* length endframe - startframe + 1 is below 10; a run of 10 frames whose
\* label differs from the current merged segment starts a new one.
RunLength(s) == s.endframe - s.startframe + 1
C10_ShortIffBelowTen ==
    PreGrowth =>
        \A seg \in DOMAIN branch :
            seg >= 1 =>
                /\ (branch[seg] = "short") <=> (RunLength(segments[seg]) < 10)
                /\ RunLength(segments[seg]) >= 10 =>
                       branch[seg] \in {"same", "new"}

---------------------------------------------------------------------------
(* Properties of average_musicness *)

Smoothed == pc = "smoothed"

TrueCount(labels, lo, hi) ==
    Cardinality({ j \in lo..hi : labels[j] })

\* C5: every interior index i (3 <= i < LONG_FRAME_COUNT - 3) is smoothed
\* to true exactly when at least 4 of the 7 unsmoothed labels
\* label[i-3..i+3] are true.
C5_MajorityOfSeven ==
    Smoothed =>
        \A i \in 3..(LONG_FRAME_COUNT - 4) :
            is_music[i] <=> (TrueCount(unsmoothed, i - 3, i + 3) >= 4)

\* C6: for LONG_FRAME_COUNT >= 7 the three leading labels are true and
\* the three trailing labels are false after smoothing, whatever the
\* input and whatever the fresh buffer held.
C6_FixedBoundaries ==
    (Smoothed /\ LONG_FRAME_COUNT >= 7) =>
        /\ \A i \in 0..2 : is_music[i] = TRUE
        /\ \A i \in (LONG_FRAME_COUNT - 3)..(LONG_FRAME_COUNT - 1) :
              is_music[i] = FALSE

---------------------------------------------------------------------------
(* Properties of calculate_features and classify_segments *)

SilentFrame(lf) ==
    \A i \in BlockStart(lf, RMS_FRAMES_IN_LONG_FRAME)
             ..BlockEnd(lf, RMS_FRAMES_IN_LONG_FRAME) : rms[i] = 0

\* C9: a long frame whose RMS values are all 0 gets the MLER 1/2 (a
\* defined value in [0, 1]) and, with the music threshold 0.0, the label
\* speech.
C9_SilentIsSpeech ==
    \A lf \in DOMAIN mler :
        SilentFrame(lf) =>
            /\ mean_rms[lf].num = 0
            /\ mler[lf].den > 0
            /\ 0 <= mler[lf].num /\ mler[lf].num <= mler[lf].den
            /\ 2 * mler[lf].num = mler[lf].den
            /\ pc = "classified" => is_music[lf] = FALSE

C9_Witness ==
    /\ pc = "classified"
    /\ \E lf \in DOMAIN mler :
          /\ SilentFrame(lf)
          /\ is_music[lf] = FALSE
          /\ 2 * mler[lf].num = mler[lf].den

=============================================================================
